---------------------------- MODULE Spec2Model ----------------------------
(***************************************************************************)
(* Model of process_pathology_reports.py and process_epic_notes.py.        *)
(*                                                                         *)
(* A string is a sequence of symbols.  A symbol is one character ("\t",    *)
(* "\n", " ", a digit, a sign) or an unbroken run of letters standing for  *)
(* a field name or a field value ("MRN", "A"); the code only ever compares *)
(* such runs for equality.  A record (a Python dict of str -> str) is a    *)
(* function from field names to values; the insertion order of its keys,   *)
(* which only the column order of the CSV writer reads, is not modelled.   *)
(*                                                                         *)
(* Three specifications share the module:                                  *)
(*   SpecParse  parse_note_file applied to bounded files, and re-applied   *)
(*              after a whitespace-only line is inserted or removed;       *)
(*   SpecMerge  merge_pathology_records applied to bounded record lists;   *)
(*   Spec       a run of main() of either script, step by step.            *)
(***************************************************************************)
EXTENDS Integers, Sequences, FiniteSets, TLC

VARIABLES
    p_file,         \* SpecParse: the file handed to parse_note_file
    p_records,      \* SpecParse: the list parse_note_file returned
    p_pc,           \* SpecParse: "ready" | "parsed"
    m_records,      \* SpecMerge: the argument of merge_pathology_records
    m_sorted,       \* SpecMerge: sorted_group of every iteration (input positions)
    m_merged,       \* SpecMerge: the list merge_pathology_records returned
    m_pc,           \* SpecMerge: "ready" | "merged"
    pc,             \* Spec: position of main()
    args,           \* Spec: the parsed command line
    env,            \* Spec: what the file system answered so far
    directory,      \* Spec: the entries of input_dir, by rank of their name
    files,          \* Spec: process_directory's sorted list of matching names
    file_idx,       \* Spec: process_directory's loop position
    records,        \* Spec: the record list of main()
    output_file,    \* Spec: "untouched" | "truncated" | "written"
    exit_status     \* Spec: -1 while running, else the process exit status

parse_vars == <<p_file, p_records, p_pc>>
merge_vars == <<m_records, m_sorted, m_merged, m_pc>>
main_vars  == <<pc, args, env, directory, files, file_idx, records,
                output_file, exit_status>>
vars == <<parse_vars, merge_vars, main_vars>>

---------------------------------------------------------------------------
(* Bounds *)

MaxRowLen == 3      \* symbols of a data line before its "\n" (SpecParse)
MaxRows == 2        \* lines after the header line (SpecParse)
MaxRecords == 3     \* records handed to merge_pathology_records (SpecMerge)
MaxFiles == 3       \* entries of the input directory (Spec)

---------------------------------------------------------------------------
(* Python str primitives *)

TAB == "\t"
NL == "\n"
SP == " "

\* str.isspace() for the characters of the model
IsSpace(c) == c \in {SP, TAB, NL, "\r"}

RECURSIVE LStrip(_)
LStrip(s) == IF s # <<>> /\ IsSpace(Head(s)) THEN LStrip(Tail(s)) ELSE s

RECURSIVE RStrip(_)
RStrip(s) ==
    IF s # <<>> /\ IsSpace(s[Len(s)]) THEN RStrip(SubSeq(s, 1, Len(s) - 1)) ELSE s

\* str.strip(): leading and trailing whitespace removed
Strip(s) == RStrip(LStrip(s))

\* str.split(sep): the pieces between separators, always at least one
RECURSIVE Split(_, _)
Split(s, sep) ==
    IF \A i \in 1..Len(s) : s[i] # sep
    THEN <<s>>
    ELSE LET k == CHOOSE i \in 1..Len(s) :
                      s[i] = sep /\ \A j \in 1..(i - 1) : s[j] # sep
         IN <<SubSeq(s, 1, k - 1)>> \o Split(SubSeq(s, k + 1, Len(s)), sep)

\* sep.join(parts)
RECURSIVE Join(_, _)
Join(sep, parts) ==
    IF parts = <<>> THEN <<>>
    ELSE IF Len(parts) = 1 THEN parts[1]
    ELSE parts[1] \o <<sep>> \o Join(sep, Tail(parts))

\* dict.get(name, default)
Get(record, name, default) ==
    IF name \in DOMAIN record THEN record[name] ELSE default

---------------------------------------------------------------------------
(* parse_note_file *)

\* values.extend([''] * n)
RECURSIVE Empties(_)
Empties(n) == IF n <= 0 THEN <<>> ELSE <<(<<>>)>> \o Empties(n - 1)

\* lines 47-55: pad a short row with '', cut a long row to len(headers)
Reconcile(headers, values) ==
    IF Len(headers) # Len(values)
    THEN IF Len(values) < Len(headers)
         THEN values \o Empties(Len(headers) - Len(values))
         ELSE SubSeq(values, 1, Len(headers))
    ELSE values

\* dict(zip(headers, values)): a repeated header name keeps its last value
DictZip(headers, values) ==
    LET n == IF Len(headers) < Len(values) THEN Len(headers) ELSE Len(values)
    IN [h \in {headers[i] : i \in 1..n} |->
            values[CHOOSE i \in 1..n :
                      headers[i] = h /\ \A j \in (i + 1)..n : headers[j] # h]]

ParseHeaders(line) == Split(Strip(line), TAB)

\* ParseRow skipping only lines that are empty once the "\n" is removed
ParseRow_EmptyOnly(headers, line, acc) ==
    IF line \in {<<>>, <<NL>>}
    THEN acc
    ELSE Append(acc, DictZip(headers, Reconcile(headers, Split(Strip(line), TAB))))

\* one iteration of the loop of lines 40-58: the records list after `line`
ParseRow(headers, line, acc) ==
    IF Strip(line) = <<>>
    THEN acc
    ELSE Append(acc, DictZip(headers, Reconcile(headers, Split(Strip(line), TAB))))

RECURSIVE ParseRows(_, _, _)
ParseRows(headers, lines, acc) ==
    IF lines = <<>> THEN acc
    ELSE ParseRows(headers, Tail(lines), ParseRow(headers, Head(lines), acc))

\* A file is [readable, lines]: open()/readlines() raising (missing file,
\* a directory, undecodable bytes) is readable = FALSE, caught at line 62.
parse_note_file(file) ==
    IF ~file.readable THEN <<>>
    ELSE IF Len(file.lines) < 2 THEN <<>>
    ELSE ParseRows(ParseHeaders(file.lines[1]), Tail(file.lines), <<>>)

---------------------------------------------------------------------------
(* SpecParse *)

RowAlphabet == {"x", TAB}

RECURSIVE SeqsUpTo(_, _)
SeqsUpTo(S, n) ==
    IF n = 0 THEN {<<>>}
    ELSE LET shorter == SeqsUpTo(S, n - 1)
         IN shorter \cup {Append(s, c) : s \in {t \in shorter : Len(t) = n - 1}, c \in S}

\* the lines readlines() can return after the header, each ending in "\n"
RowLines == {s \o <<NL>> : s \in SeqsUpTo(RowAlphabet, MaxRowLen)}

HeaderLines ==
    { <<"A", NL>>,
      <<"A", TAB, "B", NL>>,
      <<"A", TAB, "B", TAB, "C", NL>>,
      <<"A", TAB, "A", NL>>,
      <<SP, "A", TAB, "B", SP, NL>>,
      <<NL>> }

ParseFiles ==
    {[readable |-> FALSE, lines |-> <<>>], [readable |-> TRUE, lines |-> <<>>]}
    \cup {[readable |-> TRUE, lines |-> <<h>> \o rows] :
            h \in HeaderLines, rows \in SeqsUpTo(RowLines, MaxRows)}

IsBlank(line) == \A i \in 1..Len(line) : IsSpace(line[i])

InsertAt(s, i, e) == SubSeq(s, 1, i - 1) \o <<e>> \o SubSeq(s, i, Len(s))
RemoveAt(s, i) == SubSeq(s, 1, i - 1) \o SubSeq(s, i + 1, Len(s))

NoArgs == [ok |-> FALSE, cli |-> "none", no_merge |-> FALSE, suffix |-> ""]

\* nothing asked of the file system yet
NoEnv == [exists |-> "unknown", is_dir |-> "unknown", glob |-> "unknown",
          open |-> "unknown", write |-> "unknown"]

MainIdle ==
    /\ pc = "idle" /\ args = NoArgs /\ env = NoEnv
    /\ directory = <<>> /\ files = <<>> /\ file_idx = 0 /\ records = <<>>
    /\ output_file = "untouched" /\ exit_status = -1

MergeIdle ==
    /\ m_records = <<>> /\ m_sorted = <<>> /\ m_merged = <<>> /\ m_pc = "idle"

ParseIdle ==
    /\ p_file = [readable |-> FALSE, lines |-> <<>>] /\ p_records = <<>>
    /\ p_pc = "idle"

InitParse ==
    /\ p_file \in ParseFiles
    /\ p_records = <<>>
    /\ p_pc = "ready"
    /\ MergeIdle /\ MainIdle

\* parse_note_file(file_path)
Parse ==
    /\ p_pc = "ready"
    /\ p_records' = parse_note_file(p_file)
    /\ p_pc' = "parsed"
    /\ UNCHANGED <<p_file, merge_vars, main_vars>>

\* the file gains a whitespace-only line after its header and is parsed again
InsertBlank ==
    /\ p_pc = "parsed" /\ p_file.readable
    /\ Len(p_file.lines) >= 1 /\ Len(p_file.lines) < MaxRows + 1
    /\ \E i \in 2..(Len(p_file.lines) + 1), b \in {l \in RowLines : IsBlank(l)} :
          /\ p_file' = [p_file EXCEPT !.lines = InsertAt(@, i, b)]
          /\ p_records' = parse_note_file(p_file')
    /\ UNCHANGED <<p_pc, merge_vars, main_vars>>

\* the file loses a whitespace-only line after its header and is parsed again
RemoveBlank ==
    /\ p_pc = "parsed" /\ p_file.readable
    /\ \E i \in 2..Len(p_file.lines) :
          /\ IsBlank(p_file.lines[i])
          /\ p_file' = [p_file EXCEPT !.lines = RemoveAt(@, i)]
          /\ p_records' = parse_note_file(p_file')
    /\ UNCHANGED <<p_pc, merge_vars, main_vars>>

NextParse == Parse \/ InsertBlank \/ RemoveBlank

SpecParse == InitParse /\ [][NextParse]_vars

---------------------------------------------------------------------------
(* Properties of parse_note_file (SpecParse) *)

\* a line without its line terminator
Content(line) ==
    IF line # <<>> /\ line[Len(line)] = NL THEN SubSeq(line, 1, Len(line) - 1) ELSE line

\* the tab-separated values of a line as written in the file
RawValues(line) == Split(Content(line), TAB)

NonBlank(line) == ~IsBlank(line)

\* the data rows of the file: the lines after the header that are not blank
DataRows(file) ==
    IF file.lines = <<>> THEN <<>> ELSE SelectSeq(Tail(file.lines), NonBlank)

Distinct(seq) == \A i, j \in 1..Len(seq) : seq[i] = seq[j] => i = j

\* a header line with pairwise distinct, non-empty names and no whitespace
\* around them, so that its names are the same however they are read
PlainHeader(file) ==
    /\ file.readable /\ Len(file.lines) >= 1
    /\ Strip(file.lines[1]) = Content(file.lines[1])
    /\ Distinct(RawValues(file.lines[1]))
    /\ \A i \in 1..Len(RawValues(file.lines[1])) : RawValues(file.lines[1])[i] # <<>>

\* C5 as stated (for plain headers): when every data row has as many
\* tab-separated values as the header has names, there is one record per data
\* row, in row order, with the header names as field set and the row's i-th
\* value under the i-th name.
C5_Lossless ==
    (p_pc = "parsed" /\ PlainHeader(p_file)) =>
        LET headers == RawValues(p_file.lines[1])
            rows == DataRows(p_file)
        IN (\A k \in 1..Len(rows) : Len(RawValues(rows[k])) = Len(headers)) =>
              /\ Len(p_records) = Len(rows)
              /\ \A k \in 1..Len(rows) :
                    /\ DOMAIN p_records[k] = {headers[i] : i \in 1..Len(headers)}
                    /\ \A i \in 1..Len(headers) :
                          p_records[k][headers[i]] = RawValues(rows[k])[i]

\* C6 as stated (for plain headers): every non-blank row yields one record; a
\* row with fewer values than the header keeps them in order, '' in the
\* remaining positions; a row with more keeps its first len(headers) values.
C6_Reconcile ==
    (p_pc = "parsed" /\ PlainHeader(p_file)) =>
        LET headers == RawValues(p_file.lines[1])
            rows == DataRows(p_file)
        IN /\ Len(p_records) = Len(rows)
           /\ \A k \in 1..Len(rows) :
                 LET raw == RawValues(rows[k])
                 IN Len(raw) # Len(headers) =>
                       /\ DOMAIN p_records[k] = {headers[i] : i \in 1..Len(headers)}
                       /\ \A i \in 1..Len(headers) :
                             p_records[k][headers[i]]
                                 = IF i <= Len(raw) THEN raw[i] ELSE <<>>

\* C7: a whitespace-only line after the header never yields a record, and
\* inserting or removing one leaves the records parse_note_file returns
\* unchanged.
C7_BlankLines ==
    [][ /\ (p_pc = "parsed" /\ p_pc' = "parsed") => p_records' = p_records
        /\ p_pc' = "parsed" => Len(p_records') <= Len(DataRows(p_file')) ]_vars

\* C7 witness: a parsed file holding a line of tabs before its one data row,
\* which yielded the one record
C7_Witness ==
    /\ p_pc = "parsed" /\ p_file.readable
    /\ Len(p_file.lines) = 3
    /\ p_file.lines[2] = <<TAB, TAB, NL>>
    /\ ~IsBlank(p_file.lines[3])
    /\ Len(p_records) = 1

---------------------------------------------------------------------------
(* merge_pathology_records *)

F_MRN == <<"MRN">>
F_date == <<"date">>
F_LabOrderEpicId == <<"LabOrderEpicId">>
F_CaseName == <<"CaseName">>
F_SpecimenSource == <<"SpecimenSource">>
F_ConcatenationLine == <<"ConcatenationLine">>
F_ConcatenationSubLine == <<"ConcatenationSubLine">>
F_ValueText == <<"ValueText">>
F_Other == <<"AuthorName">>

\* merged[name] = value
With(record, name, value) ==
    [f \in (DOMAIN record) \cup {name} |-> IF f = name THEN value ELSE record[f]]

\* merged.pop(name, None)
Without(record, name) == [f \in (DOMAIN record) \ {name} |-> record[f]]

DigitChars == <<"0", "1", "2", "3", "4", "5", "6", "7", "8", "9">>
IsDigit(c) == \E n \in 1..Len(DigitChars) : DigitChars[n] = c
DigitVal(c) == (CHOOSE n \in 1..Len(DigitChars) : DigitChars[n] = c) - 1

RECURSIVE DigitsVal(_)
DigitsVal(s) ==
    IF s = <<>> THEN 0
    ELSE DigitsVal(SubSeq(s, 1, Len(s) - 1)) * 10 + DigitVal(s[Len(s)])

\* int(s): surrounding whitespace, an optional sign, then decimal digits;
\* anything else raises ValueError (ok = FALSE).  Digit-group underscores and
\* non-ASCII digits are outside the model's alphabet.
PyInt(s) ==
    LET t == Strip(s)
        signed == t # <<>> /\ t[1] \in {"+", "-"}
        body == IF signed THEN Tail(t) ELSE t
        ok == body # <<>> /\ \A i \in 1..Len(body) : IsDigit(body[i])
    IN IF ~ok THEN [ok |-> FALSE, val |-> 0]
       ELSE [ok |-> TRUE,
             val |-> IF signed /\ t[1] = "-" THEN 0 - DigitsVal(body)
                     ELSE DigitsVal(body)]

\* group_key with SpecimenSource left out of the tuple
group_key_NoSpecimen(record) ==
    << Get(record, F_MRN, <<>>),
       Get(record, F_date, <<>>),
       Get(record, F_LabOrderEpicId, <<>>),
       Get(record, F_CaseName, <<>>) >>

\* lines 113-119: the grouping key
group_key(record) ==
    << Get(record, F_MRN, <<>>),
       Get(record, F_date, <<>>),
       Get(record, F_LabOrderEpicId, <<>>),
       Get(record, F_CaseName, <<>>),
       Get(record, F_SpecimenSource, <<>>) >>

\* lines 109-120: grouped, a dict in insertion order, as a sequence of
\* [key, members]; members are positions in `recs` (object references)
RECURSIVE GroupFrom(_, _, _)
GroupFrom(recs, i, grouped) ==
    IF i > Len(recs) THEN grouped
    ELSE LET key == group_key(recs[i])
         IN IF \E g \in 1..Len(grouped) : grouped[g].key = key
            THEN LET g == CHOOSE g \in 1..Len(grouped) : grouped[g].key = key
                 IN GroupFrom(recs, i + 1,
                        [grouped EXCEPT ![g].members = Append(@, i)])
            ELSE GroupFrom(recs, i + 1,
                     Append(grouped, [key |-> key, members |-> <<i>>]))

Grouped(recs) == GroupFrom(recs, 1, <<>>)

\* sort_key with the fallback applied to each field on its own
sort_key_PerField(record) ==
    LET line == PyInt(Get(record, F_ConcatenationLine, <<"0">>))
        subline == PyInt(Get(record, F_ConcatenationSubLine, <<"0">>))
    IN <<IF line.ok THEN line.val ELSE 0, IF subline.ok THEN subline.val ELSE 0>>

\* lines 133-139
sort_key(record) ==
    LET line == PyInt(Get(record, F_ConcatenationLine, <<"0">>))
        subline == PyInt(Get(record, F_ConcatenationSubLine, <<"0">>))
    IN IF line.ok /\ subline.ok THEN <<line.val, subline.val>> ELSE <<0, 0>>

\* comparison of the first component only
KeyLess_LineOnly(a, b) == a[1] < b[1]

\* tuple comparison a < b
KeyLess(a, b) == a[1] < b[1] \/ (a[1] = b[1] /\ a[2] < b[2])

\* sorted() is stable: an element goes after every element not greater than it
InsertByKey(recs, sorted, i) ==
    LET after == {p \in 1..Len(sorted) :
                     KeyLess(sort_key(recs[i]), sort_key(recs[sorted[p]]))}
        at == IF after = {} THEN Len(sorted) + 1
              ELSE CHOOSE p \in after : \A q \in after : p <= q
    IN InsertAt(sorted, at, i)

RECURSIVE SortFrom(_, _, _)
SortFrom(recs, members, sorted) ==
    IF members = <<>> THEN sorted
    ELSE SortFrom(recs, Tail(members), InsertByKey(recs, sorted, Head(members)))

\* line 141: sorted(group, key=sort_key)
SortedGroup(recs, members) == SortFrom(recs, members, <<>>)

\* MergeGroup without the second pop
MergeGroup_KeepSubLine(recs, sorted_group) ==
    LET base == recs[sorted_group[1]]
        value_texts == [k \in 1..Len(sorted_group) |->
                           Get(recs[sorted_group[k]], F_ValueText, <<>>)]
    IN Without(With(base, F_ValueText, Join(NL, value_texts)),
               F_ConcatenationLine)

\* lines 143-152: the merged record of one sorted group
MergeGroup(recs, sorted_group) ==
    LET base == recs[sorted_group[1]]
        value_texts == [k \in 1..Len(sorted_group) |->
                           Get(recs[sorted_group[k]], F_ValueText, <<>>)]
    IN Without(Without(With(base, F_ValueText, Join(NL, value_texts)),
                       F_ConcatenationLine),
               F_ConcatenationSubLine)

\* sorted_group of every iteration of the loop of line 126
SortedGroups(recs) ==
    LET grouped == Grouped(recs)
    IN [g \in 1..Len(grouped) |-> SortedGroup(recs, grouped[g].members)]

merge_pathology_records(recs) ==
    LET sorted_groups == SortedGroups(recs)
    IN [g \in 1..Len(sorted_groups) |-> MergeGroup(recs, sorted_groups[g])]

---------------------------------------------------------------------------
(* SpecMerge *)

Str(c) == <<c>>

BaseRecord ==
    [f \in {F_MRN, F_date, F_LabOrderEpicId, F_CaseName, F_SpecimenSource,
            F_ConcatenationLine, F_ConcatenationSubLine, F_ValueText, F_Other}
        |-> IF f = F_ValueText THEN Str("A")
            ELSE IF f = F_Other THEN Str("p") ELSE Str("1")]

Ordered(line, subline, text) ==
    With(With(With(BaseRecord, F_ConcatenationLine, line),
              F_ConcatenationSubLine, subline), F_ValueText, text)

\* one report's fragments: parsable, unparsable, negative, padded-empty and
\* absent ordering fields
SortFamily ==
    { Ordered(Str("1"), Str("1"), Str("A")),
      Ordered(Str("1"), Str("2"), Str("B")),
      Ordered(Str("2"), Str("1"), Str("A")),
      Ordered(<<"1", "0">>, Str("1"), Str("A")),
      Ordered(Str("x"), Str("1"), Str("B")),
      Ordered(Str("2"), Str("x"), Str("A")),
      Ordered(<<"-", "1">>, Str("1"), Str("B")),
      Ordered(<<>>, <<>>, Str("A")),
      Without(Ordered(Str("1"), Str("1"), Str("B")), F_ConcatenationLine),
      Without(Ordered(Str("2"), Str("1"), Str("A")), F_ConcatenationSubLine),
      Without(Without(Ordered(Str("1"), Str("1"), Str("B")), F_ConcatenationLine),
              F_ConcatenationSubLine) }

\* other reports: each key field differing, absent, or empty
KeyFamily ==
    { With(BaseRecord, f, Str("2")) :
        f \in {F_MRN, F_date, F_LabOrderEpicId, F_CaseName, F_SpecimenSource} }
    \cup { Without(BaseRecord, F_MRN), With(BaseRecord, F_MRN, <<>>) }

\* other shapes: no ValueText column, another value of an unrelated field
ShapeFamily ==
    { Without(Ordered(Str("1"), Str("1"), Str("A")), F_ValueText),
      With(Ordered(Str("1"), Str("2"), Str("B")), F_Other, Str("q")) }

MergeInputs == SortFamily \cup KeyFamily \cup ShapeFamily

InitMerge ==
    /\ m_records \in SeqsUpTo(MergeInputs, MaxRecords)
    /\ m_sorted = <<>>
    /\ m_merged = <<>>
    /\ m_pc = "ready"
    /\ ParseIdle /\ MainIdle

\* merge_pathology_records(records)
Merge ==
    /\ m_pc = "ready"
    /\ m_sorted' = SortedGroups(m_records)
    /\ m_merged' = [g \in 1..Len(m_sorted') |-> MergeGroup(m_records, m_sorted'[g])]
    /\ m_pc' = "merged"
    /\ UNCHANGED <<m_records, parse_vars, main_vars>>

NextMerge == Merge

SpecMerge == InitMerge /\ [][NextMerge]_vars

---------------------------------------------------------------------------
(* process_directory and main (Spec) *)

\* str.lower() on the output suffixes of the model
Lower(suffix) ==
    IF suffix = ".CSV" THEN ".csv" ELSE suffix

Suffixes == {".csv", ".CSV", ".json", ".txt", ""}

LineOf(cells) == Join(TAB, cells) \o <<NL>>

NoteHeader == LineOf(<<F_MRN, F_date, F_ValueText>>)

ReportHeader ==
    LineOf(<<F_MRN, F_date, F_LabOrderEpicId, F_CaseName, F_SpecimenSource,
             F_ConcatenationLine, F_ConcatenationSubLine, F_ValueText>>)

ReportRow(mrn, line, subline, text) ==
    LineOf(<<Str(mrn), Str("2020-01-01"), Str("L1"), Str("C1"), Str("S1"),
             line, subline, text>>)

TextFile(lines) == [matches |-> TRUE, readable |-> TRUE, lines |-> lines]

\* what one entry of the input directory can be
Entries ==
    { \* a name the pattern does not match
      [matches |-> FALSE, readable |-> TRUE,
       lines |-> <<NoteHeader, LineOf(<<Str("9"), Str("2020-01-01"), Str("Skip")>>)>>],
      \* a matching name whose open() or decoding fails
      [matches |-> TRUE, readable |-> FALSE, lines |-> <<>>],
      \* a header and nothing else
      TextFile(<<NoteHeader>>),
      \* a header and a whitespace-only line
      TextFile(<<ReportHeader, <<TAB, SP, NL>>>>),
      \* one note
      TextFile(<<NoteHeader, LineOf(<<Str("1"), Str("2020-01-01"), Str("Hello")>>)>>),
      \* two fragments of one report, the second first; a blank line between
      TextFile(<<ReportHeader,
                 ReportRow("1", Str("2"), Str("1"), Str("PartB")),
                 <<NL>>,
                 ReportRow("1", Str("1"), Str("1"), Str("PartA"))>>),
      \* a fragment of the same report and one of another; no final "\n"
      TextFile(<<ReportHeader,
                 ReportRow("1", Str("1"), Str("2"), Str("PartC")),
                 Join(TAB, <<Str("2"), Str("2020-01-01"), Str("L1"), Str("C1"),
                             Str("S1"), Str("1")>>)>>) }

\* the directory: entry n is the one whose name is n-th in path order
Directories ==
    UNION {[1..n -> Entries] : n \in 0..MaxFiles}

Matching(dir) == {n \in DOMAIN dir : dir[n].matches}

\* the orders in which glob() may yield the matching paths
GlobOrders(dir) ==
    {order \in [1..Cardinality(Matching(dir)) -> Matching(dir)] :
        \A a, b \in DOMAIN order : order[a] = order[b] => a = b}

\* glob() order kept as it is
SortedPaths_Unsorted(paths) == paths

RECURSIVE SortPathsFrom(_, _)
SortPathsFrom(paths, sorted) ==
    IF paths = <<>> THEN sorted
    ELSE LET e == Head(paths)
             after == {p \in 1..Len(sorted) : e < sorted[p]}
             at == IF after = {} THEN Len(sorted) + 1
                   ELSE CHOOSE p \in after : \A q \in after : p <= q
         IN SortPathsFrom(Tail(paths), InsertAt(sorted, at, e))

\* line 78: sorted(input_dir.glob(pattern))
SortedPaths(paths) == SortPathsFrom(paths, <<>>)

Init ==
    /\ pc = "parse_args"
    /\ args = NoArgs
    /\ env = NoEnv
    /\ directory \in Directories
    /\ files = <<>>
    /\ file_idx = 0
    /\ records = <<>>
    /\ output_file = "untouched"
    /\ exit_status = -1
    /\ ParseIdle /\ MergeIdle

Exit(status) == pc' = "done" /\ exit_status' = status

\* parser.parse_args(): argparse exits 2 on a bad command line; only the
\* pathology script has --no-merge
ParseArgs ==
    /\ pc = "parse_args"
    /\ \/ /\ Exit(2)
          /\ UNCHANGED args
       \/ /\ \E cli \in {"notes", "pathology"}, no_merge \in BOOLEAN, suffix \in Suffixes :
                /\ cli = "notes" => ~no_merge
                /\ args' = [ok |-> TRUE, cli |-> cli, no_merge |-> no_merge,
                            suffix |-> suffix]
          /\ pc' = "check_exists"
          /\ UNCHANGED exit_status
    /\ UNCHANGED <<env, directory, files, file_idx, records, output_file,
                   parse_vars, merge_vars>>

\* if not args.input_dir.exists(): sys.exit(1)
CheckExists ==
    /\ pc = "check_exists"
    /\ \E e \in {"yes", "no"} :
          /\ env' = [env EXCEPT !.exists = e]
          /\ IF e = "no" THEN Exit(1)
             ELSE pc' = "check_is_dir" /\ UNCHANGED exit_status
    /\ UNCHANGED <<args, directory, files, file_idx, records, output_file,
                   parse_vars, merge_vars>>

\* if not args.input_dir.is_dir(): sys.exit(1)
CheckIsDir ==
    /\ pc = "check_is_dir"
    /\ \E d \in {"yes", "no"} :
          /\ env' = [env EXCEPT !.is_dir = d]
          /\ IF d = "no" THEN Exit(1)
             ELSE pc' = "glob" /\ UNCHANGED exit_status
    /\ UNCHANGED <<args, directory, files, file_idx, records, output_file,
                   parse_vars, merge_vars>>

\* process_directory up to its loop: glob() raises on a pattern pathlib
\* rejects (nothing catches it: traceback, status 1); otherwise the matching
\* paths, in any order, are sorted; no match returns [] at once
Glob ==
    /\ pc = "glob"
    /\ \/ /\ env' = [env EXCEPT !.glob = "no"]
          /\ Exit(1)
          /\ UNCHANGED <<files, file_idx>>
       \/ /\ env' = [env EXCEPT !.glob = "yes"]
          /\ \E order \in GlobOrders(directory) : files' = SortedPaths(order)
          /\ file_idx' = 1
          /\ pc' = IF files' = <<>> THEN "check_records" ELSE "process_files"
          /\ UNCHANGED exit_status
    /\ UNCHANGED <<args, directory, records, output_file, parse_vars, merge_vars>>

\* one iteration of the loop of process_directory
ProcessFile ==
    /\ pc = "process_files"
    /\ records' = records \o parse_note_file(directory[files[file_idx]])
    /\ file_idx' = file_idx + 1
    /\ pc' = IF file_idx = Len(files) THEN "check_records" ELSE "process_files"
    /\ UNCHANGED <<args, env, directory, files, output_file, exit_status,
                   parse_vars, merge_vars>>

\* CheckRecords going on with an empty list
CheckRecords_NoExit ==
    /\ pc = "check_records"
    /\ pc' = "merge"
    /\ UNCHANGED <<args, env, directory, files, file_idx, records, output_file,
                   exit_status, parse_vars, merge_vars>>

\* if not records: sys.exit(1)
CheckRecords ==
    /\ pc = "check_records"
    /\ IF records = <<>> THEN Exit(1)
       ELSE pc' = "merge" /\ UNCHANGED exit_status
    /\ UNCHANGED <<args, env, directory, files, file_idx, records, output_file,
                   parse_vars, merge_vars>>

\* if not args.no_merge: records = merge_pathology_records(records)
\* (the notes script has no such step)
MergeRecords ==
    /\ pc = "merge"
    /\ records' = IF args.cli = "pathology" /\ ~args.no_merge
                  THEN merge_pathology_records(records)
                  ELSE records
    /\ pc' = "write"
    /\ UNCHANGED <<args, env, directory, files, file_idx, output_file,
                   exit_status, parse_vars, merge_vars>>

\* OpenOutput creating the file before it looks at the extension
OpenOutput_OpenFirst ==
    /\ pc = "write"
    /\ IF Lower(args.suffix) \in {".csv", ".json"}
       THEN /\ env' = [env EXCEPT !.open = "yes"]
            /\ output_file' = "truncated"
            /\ pc' = "writing"
            /\ UNCHANGED exit_status
       ELSE /\ output_file' = "truncated"
            /\ Exit(1)
            /\ UNCHANGED env
    /\ UNCHANGED <<args, directory, files, file_idx, records, parse_vars, merge_vars>>

\* the dispatch on output_ext and the start of write_csv / write_json: an
\* unsupported extension exits 1; an empty list returns without writing;
\* open(output_path, 'w') creates or truncates the file, or raises (nothing
\* catches it: traceback, status 1)
OpenOutput ==
    /\ pc = "write"
    /\ IF Lower(args.suffix) \in {".csv", ".json"}
       THEN IF records = <<>>
            THEN /\ Exit(0)
                 /\ UNCHANGED <<env, output_file>>
            ELSE \/ /\ env' = [env EXCEPT !.open = "no"]
                    /\ Exit(1)
                    /\ UNCHANGED output_file
                 \/ /\ env' = [env EXCEPT !.open = "yes"]
                    /\ output_file' = "truncated"
                    /\ pc' = "writing"
                    /\ UNCHANGED exit_status
       ELSE /\ Exit(1)
            /\ UNCHANGED <<env, output_file>>
    /\ UNCHANGED <<args, directory, files, file_idx, records, parse_vars, merge_vars>>

\* the body of the with block, then "Done!": the rows are written and the
\* run ends with status 0, or a write raises (status 1) and leaves the file
\* as far as it got
WriteOutput ==
    /\ pc = "writing"
    /\ \/ /\ env' = [env EXCEPT !.write = "yes"]
          /\ output_file' = "written"
          /\ Exit(0)
       \/ /\ env' = [env EXCEPT !.write = "no"]
          /\ Exit(1)
          /\ UNCHANGED output_file
    /\ UNCHANGED <<args, directory, files, file_idx, records, parse_vars, merge_vars>>

Next ==
    \/ ParseArgs \/ CheckExists \/ CheckIsDir \/ Glob \/ ProcessFile
    \/ CheckRecords \/ MergeRecords \/ OpenOutput \/ WriteOutput

Spec == Init /\ [][Next]_vars

---------------------------------------------------------------------------
(* Properties of process_directory and main (Spec) *)

\* the matching entries that can be read
ReadableMatches == {n \in DOMAIN directory : directory[n].matches /\ directory[n].readable}

\* the records of the entries `names`, each parsed on its own, by ascending name
RECURSIVE RecordsOf(_)
RecordsOf(names) ==
    IF names = {} THEN <<>>
    ELSE LET last == CHOOSE n \in names : \A m \in names : m <= n
         IN RecordsOf(names \ {last}) \o parse_note_file(directory[last])

\* C9: process_directory returns the records of the matching files in
\* sorted name order; a file that cannot be read adds nothing, and the result
\* is what it would be were that file absent.
C9_SortedConcat ==
    pc = "check_records" => records = RecordsOf(ReadableMatches)

\* C9 witness: an unreadable file between two files that yielded records,
\* an entry the pattern does not match aside
C9_Witness ==
    /\ pc = "check_records"
    /\ Len(files) = 3
    /\ ~directory[files[2]].readable
    /\ parse_note_file(directory[files[1]]) # <<>>
    /\ parse_note_file(directory[files[3]]) # <<>>
    /\ directory[files[1]] # directory[files[3]]
    /\ Len(records) >= 2

\* the extensions main() accepts, in either case
Recognized(suffix) == suffix \in {".csv", ".CSV", ".json"}

\* the four conditions main() answers with sys.exit(1)
Fatal ==
    \/ env.exists = "no"
    \/ env.is_dir = "no"
    \/ records = <<>>
    \/ ~Recognized(args.suffix)

\* an exception nothing catches: glob() on the pattern, open() of the output
\* file, a write to it
Uncaught == env.glob = "no" \/ env.open = "no" \/ env.write = "no"

---------------------------------------------------------------------------
(* Properties of merge_pathology_records (SpecMerge) *)

KeyFields == {F_MRN, F_date, F_LabOrderEpicId, F_CaseName, F_SpecimenSource}

\* the GroupKey of a record as the specification defines it
ClaimGroupKey(r) == [f \in KeyFields |-> IF f \in DOMAIN r THEN r[f] ELSE <<>>]

InputKeys == {ClaimGroupKey(m_records[i]) : i \in 1..Len(m_records)}

Members(K) == {i \in 1..Len(m_records) : ClaimGroupKey(m_records[i]) = K}

TextOf(i) ==
    IF F_ValueText \in DOMAIN m_records[i] THEN m_records[i][F_ValueText] ELSE <<>>

FieldInt(r, f) == IF f \in DOMAIN r THEN PyInt(r[f]) ELSE [ok |-> TRUE, val |-> 0]

\* (line, subline) as integers: an absent field is 0, a record with a field
\* that is no integer is (0, 0)
ClaimKey(r) ==
    LET l == FieldInt(r, F_ConcatenationLine)
        s == FieldInt(r, F_ConcatenationSubLine)
    IN IF l.ok /\ s.ok THEN <<l.val, s.val>> ELSE <<0, 0>>

PairLess(a, b) == a[1] < b[1] \/ (a[1] = b[1] /\ a[2] < b[2])

\* the (line, subline) key of every input record
ClaimKeys == [i \in 1..Len(m_records) |-> ClaimKey(m_records[i])]

\* i comes before j: smaller key, or equal keys and earlier in the input
Before(keys, i, j) == PairLess(keys[i], keys[j]) \/ (keys[i] = keys[j] /\ i < j)

\* the members of group K in ascending key order, equal keys in input order
ExpectedOrder(keys, K) ==
    LET members == Members(K)
    IN [k \in 1..Cardinality(members) |->
           CHOOSE i \in members :
               Cardinality({j \in members : Before(keys, j, i)}) = k - 1]

ExpectedTexts(keys, K) ==
    LET order == ExpectedOrder(keys, K)
    IN [k \in 1..Len(order) |-> TextOf(order[k])]

Count(seq, v) == Cardinality({k \in 1..Len(seq) : seq[k] = v})

\* C1: the merged record of every group holds, as ValueText, the "\n"-join of
\* the members' ValueText ('' when absent) in ascending (line, subline)
\* integer order, members with equal (line, subline) in input order.
C1_ConcatOrder ==
    m_pc = "merged" =>
        LET keys == ClaimKeys
        IN \A K \in InputKeys :
              \E g \in 1..Len(m_merged) :
                  /\ ClaimGroupKey(m_merged[g]) = K
                  /\ F_ValueText \in DOMAIN m_merged[g]
                  /\ m_merged[g][F_ValueText] = Join(NL, ExpectedTexts(keys, K))

\* C1 witness: a group of three whose sorted order differs from its input
\* order and which holds two members of equal key and different text
C1_Witness ==
    /\ m_pc = "merged"
    /\ \E g \in 1..Len(m_sorted) :
          /\ Len(m_sorted[g]) = 3
          /\ m_sorted[g][1] > m_sorted[g][2]
          /\ \E a, b \in 1..3 :
                /\ a < b
                /\ ClaimKey(m_records[m_sorted[g][a]]) = ClaimKey(m_records[m_sorted[g][b]])
                /\ TextOf(m_sorted[g][a]) # TextOf(m_sorted[g][b])

\* C2: grouping is a partition: one merged record per distinct GroupKey, and
\* the ValueText of every input record is one of the joined parts of the
\* merged record of its key, once (counted with multiplicity).
C2_Partition ==
    m_pc = "merged" =>
        /\ Len(m_merged) = Cardinality(InputKeys)
        /\ \A K \in InputKeys :
              /\ Cardinality({g \in 1..Len(m_merged) : ClaimGroupKey(m_merged[g]) = K}) = 1
              /\ \A g \in 1..Len(m_merged) :
                    ClaimGroupKey(m_merged[g]) = K =>
                        LET parts == Split(m_merged[g][F_ValueText], NL)
                        IN /\ Len(parts) = Cardinality(Members(K))
                           /\ \A i \in Members(K) :
                                 Count(parts, TextOf(i))
                                     = Cardinality({j \in Members(K) : TextOf(j) = TextOf(i)})

\* C2 witness: three records in two groups, a record without MRN grouped
\* with a record whose MRN is empty
C2_Witness ==
    /\ m_pc = "merged"
    /\ Len(m_records) = 3
    /\ Len(m_merged) = 2
    /\ \E i, j \in 1..Len(m_records) :
          /\ F_MRN \notin DOMAIN m_records[i]
          /\ F_MRN \in DOMAIN m_records[j]
          /\ ClaimGroupKey(m_records[i]) = ClaimGroupKey(m_records[j])

OrderFields == {F_ConcatenationLine, F_ConcatenationSubLine}

HasUnparsable(r) == \E f \in OrderFields : f \in DOMAIN r /\ ~PyInt(r[f]).ok
HasMissing(r) == \E f \in OrderFields : f \notin DOMAIN r

\* position of input record i in its sorted group
PosOf(g, i) == CHOOSE a \in 1..Len(m_sorted[g]) : m_sorted[g][a] = i
InGroup(g, i) == \E a \in 1..Len(m_sorted[g]) : m_sorted[g][a] = i

\* C3 as stated: a record with an absent or unparsable ordering field has
\* SortKey (0,0) and precedes every member of its group whose SortKey is not (0,0).
C3_Original ==
    m_pc = "merged" =>
        \A g \in 1..Len(m_sorted) : \A i \in 1..Len(m_records) :
            (InGroup(g, i) /\ (HasUnparsable(m_records[i]) \/ HasMissing(m_records[i]))) =>
                /\ sort_key(m_records[i]) = <<0, 0>>
                /\ \A j \in 1..Len(m_records) :
                      (/\ InGroup(g, j)
                       /\ ~HasUnparsable(m_records[j]) /\ ~HasMissing(m_records[j])
                       /\ sort_key(m_records[j]) # <<0, 0>>)
                      => PosOf(g, i) < PosOf(g, j)

\* C3 amended: an unparsable field makes the SortKey (0,0); an absent field
\* counts as 0 on its own; such a record precedes every member of its group
\* with a greater SortKey and follows every member with a smaller one.
C3_Amended ==
    m_pc = "merged" =>
        \A g \in 1..Len(m_sorted) : \A i \in 1..Len(m_records) :
            (InGroup(g, i) /\ (HasUnparsable(m_records[i]) \/ HasMissing(m_records[i]))) =>
                /\ HasUnparsable(m_records[i]) => sort_key(m_records[i]) = <<0, 0>>
                /\ ~HasUnparsable(m_records[i]) =>
                      sort_key(m_records[i]) =
                          << FieldInt(m_records[i], F_ConcatenationLine).val,
                             FieldInt(m_records[i], F_ConcatenationSubLine).val >>
                /\ \A j \in 1..Len(m_records) :
                      InGroup(g, j) =>
                          /\ PairLess(ClaimKey(m_records[i]), ClaimKey(m_records[j]))
                                => PosOf(g, i) < PosOf(g, j)
                          /\ PairLess(ClaimKey(m_records[j]), ClaimKey(m_records[i]))
                                => PosOf(g, j) < PosOf(g, i)

\* C3 witness: a group in which a record with an unparsable field sits
\* between a member with a negative line and a member with a positive key
C3_Witness ==
    /\ m_pc = "merged"
    /\ \E g \in 1..Len(m_sorted) :
          /\ Len(m_sorted[g]) = 3
          /\ PairLess(ClaimKey(m_records[m_sorted[g][1]]), <<0, 0>>)
          /\ HasUnparsable(m_records[m_sorted[g][2]])
          /\ PairLess(<<0, 0>>, ClaimKey(m_records[m_sorted[g][3]]))
          /\ m_sorted[g][2] < m_sorted[g][1]

FirstOf(g) == m_records[m_sorted[g][1]]

\* C4 as stated: the merged record's field set is the first-in-sort-order
\* member's field set minus the two ordering fields, and every field but
\* ValueText carries that member's value.
C4_Original ==
    m_pc = "merged" =>
        \A g \in 1..Len(m_merged) :
            /\ DOMAIN m_merged[g] = (DOMAIN FirstOf(g)) \ OrderFields
            /\ \A f \in (DOMAIN m_merged[g]) \ {F_ValueText} :
                  f \in DOMAIN FirstOf(g) /\ m_merged[g][f] = FirstOf(g)[f]

\* C4 amended: the field set is the first-in-sort-order member's field set
\* minus the two ordering fields plus ValueText (present in every merged
\* record, also when that member has none); every other field carries that
\* member's value.
C4_Amended ==
    m_pc = "merged" =>
        /\ Len(m_merged) = Len(m_sorted)
        /\ \A g \in 1..Len(m_merged) :
              /\ DOMAIN m_merged[g]
                    = ((DOMAIN FirstOf(g)) \ OrderFields) \cup {F_ValueText}
              /\ \A f \in (DOMAIN m_merged[g]) \ {F_ValueText} :
                    f \in DOMAIN FirstOf(g) /\ m_merged[g][f] = FirstOf(g)[f]

\* C4 witness: the first-in-sort-order member is not the first in the input,
\* has no ValueText, and another member disagrees with it on another field
C4_Witness ==
    /\ m_pc = "merged"
    /\ \E g \in 1..Len(m_sorted) :
          /\ Len(m_sorted[g]) >= 2
          /\ \E a \in 2..Len(m_sorted[g]) :
                /\ m_sorted[g][a] < m_sorted[g][1]
                /\ m_records[m_sorted[g][a]][F_Other] # FirstOf(g)[F_Other]
          /\ F_ValueText \notin DOMAIN FirstOf(g)
          /\ F_ConcatenationSubLine \in DOMAIN FirstOf(g)
          /\ m_merged[g][F_Other] = FirstOf(g)[F_Other]

=============================================================================
